---- MODULE Spec2Model ----
(***************************************************************************)
(* Real-time audio capture with voice-activity-gated buffering             *)
(* (RealTimeAudioCapture, src/unnamed/part_006).                           *)
(*                                                                         *)
(* Energies are log10(rms) in tenths (-100 is digital silence, 0 is full   *)
(* scale); a frame is chunkSize samples, each sample carrying the frame's  *)
(* sequence number so that concatenations can be compared sample by        *)
(* sample.  Sizes are scaled down: maxBufferSize and minSilenceFrames are   *)
(* small so that both flush policies happen within a short run.            *)
(***************************************************************************)
EXTENDS Integers, Sequences, FiniteSets, TLC

\* ---- bounds of the model ----
MaxFrames == 6
MaxOps == 4
MaxPending == 1
MaxThrows == 1
MaxVadFrames == 22
MaxChanges == 2
MaxRecStarts == 2
MaxReentries == 1
MaxRetries == 4

\* ---- program constants (scaled where noted) ----
maxBufferSize == 6
minSilenceFrames == 2
minSpeechFrames == 3
energyHistorySize == 20
InitialBackgroundNoise == -60
DefaultVadThreshold == -30

\* options.chunkSize: 1 can fill the buffer exactly, 4 overshoots it
ChunkSizes == {1, 4}
\* frame energies: digital silence and full scale
Energies == {-100, 0}
\* frame energies (digital silence, a quiet voice) and options.vadThreshold
\* (as log10, in tenths) for the runs that exercise performVAD alone
VadEnergies == {-100, -40}
VadThresholds == {-80, -30}

VARIABLES
    stream, audioContext, processor, analyser, microphone,
    isRecording, audioBuffer, bufferSize,
    energyHistory, silenceFrames, speechFrames, backgroundNoise,
    chunkSize,
    pendingInit, pendingStart,
    nFrames, nOps, frames, appended, emitted,
    lastOp, lastTrace, stopIssued, threw, nThrows,
    vadThreshold, fed, lastVad,
    isTranscribing, sessionId, recognition, recRunning, recEnding, restartTimers,
    mgrPc, denialAt, recStarts,
    nReentries,
    mode, stopPc, sentSegs, inflight, chunks, discarded, lastReturn, mgrStopped,
    retryMax, retryDelay, retryPc, retryI, retryCalls, retryWaits, retryLog, retryResult

resources == <<stream, audioContext, processor, analyser, microphone>>
buffering == <<audioBuffer, bufferSize>>
vadState == <<energyHistory, silenceFrames, speechFrames, backgroundNoise>>
vars == <<stream, audioContext, processor, analyser, microphone,
          isRecording, audioBuffer, bufferSize,
          energyHistory, silenceFrames, speechFrames, backgroundNoise,
          chunkSize, pendingInit, pendingStart,
          nFrames, nOps, frames, appended, emitted,
          lastOp, lastTrace, stopIssued, threw, nThrows,
          vadThreshold, fed, lastVad,
          isTranscribing, sessionId, recognition, recRunning, recEnding, restartTimers,
          mgrPc, denialAt, recStarts,
          nReentries,
          mode, stopPc, sentSegs, inflight, chunks, discarded, lastReturn, mgrStopped,
          retryMax, retryDelay, retryPc, retryI, retryCalls, retryWaits, retryLog, retryResult>>
\* the option and the record of the runs that exercise performVAD alone
vadProbe == <<vadThreshold, fed, lastVad>>
\* RealTimeTranscriptionManager
manager == <<isTranscribing, sessionId, recognition, recRunning, recEnding, restartTimers,
             mgrPc, denialAt, recStarts>>
\* RealTimeTranscriptionManager with a transcription backend (Electron, Tauri)
backend == <<mode, stopPc, sentSegs, inflight, chunks, discarded, lastReturn, mgrStopped>>
\* one call of withRetry
retry == <<retryMax, retryDelay, retryPc, retryI, retryCalls, retryWaits, retryLog, retryResult>>
\* Math.log10(this.options.vadThreshold)
fallbackThreshold == vadThreshold

\* ---- helpers ----
Max(a, b) == IF a >= b THEN a ELSE b

RECURSIVE SumSeq(_)
SumSeq(s) == IF s = <<>> THEN 0 ELSE Head(s) + SumSeq(Tail(s))

RECURSIVE Insert(_, _)
Insert(x, s) ==
    IF s = <<>> THEN <<x>>
    ELSE IF x <= Head(s) THEN <<x>> \o s
    ELSE <<Head(s)>> \o Insert(x, Tail(s))

RECURSIVE SortAscending(_)
SortAscending(s) == IF s = <<>> THEN <<>> ELSE Insert(Head(s), SortAscending(Tail(s)))

LastN(s, n) == IF Len(s) <= n THEN s ELSE SubSeq(s, Len(s) - n + 1, Len(s))

\* the block of samples the device delivers as frame number tag
InputData(tag, size) == [i \in 1..size |-> tag]

\* ---- performVAD ----
\* variant: the estimate is already recomputed from ten values
UpdateBackgroundNoiseEarly(hist, bg) ==
    IF Len(hist) >= 10
    THEN SortAscending(hist)[(Len(hist) \div 10) + 1]
    ELSE bg

UpdateBackgroundNoise(hist, bg) ==
    IF Len(hist) > 10
    THEN SortAscending(hist)[(Len(hist) \div 10) + 1]
    ELSE bg

\* variant: at capacity the value just pushed is the one dropped
PushEnergyDropsNewest(hist, e) ==
    LET pushed == Append(hist, e)
    IN IF Len(pushed) > energyHistorySize THEN hist ELSE pushed

PushEnergy(hist, e) ==
    LET pushed == Append(hist, e)
    IN IF Len(pushed) > energyHistorySize THEN Tail(pushed) ELSE pushed

Min(a, b) == IF a < b THEN a ELSE b

\* variant: the increase has to be ten times larger
SignificantEnergyIncreaseCoarse(e, bg) == e > bg + 30

SignificantEnergyIncrease(e, bg) == e > bg + 3

\* variant: the difference is halved but not clamped
ConfidenceUnclamped(recentSum, n, threshold) ==
    [num |-> recentSum - n * threshold, den |-> 20 * n]

\* Math.min(Math.max(energyDiff / 2, 0), 1) as the fraction num / den, where
\* energyDiff = recentSum / n - threshold is in tenths
Confidence(recentSum, n, threshold) ==
    [num |-> Min(Max(recentSum - n * threshold, 0), 20 * n), den |-> 20 * n]

performVAD(e, hist, bg) ==
    LET bg1 == UpdateBackgroundNoise(hist, bg)
        hist1 == PushEnergy(hist, e)
        recentFrames == LastN(hist1, 5)
        recentSum == SumSeq(recentFrames)
        n == Len(recentFrames)
        adaptiveThreshold == bg1 + 5
        threshold == Max(adaptiveThreshold, fallbackThreshold)
        energyAboveThreshold == recentSum > n * threshold
        significantEnergyIncrease == SignificantEnergyIncrease(e, bg1)
    IN [isSpeech |-> energyAboveThreshold \/ significantEnergyIncrease,
        confidence |-> Confidence(recentSum, n, threshold),
        recentSum |-> recentSum, recentLen |-> n, threshold |-> threshold,
        energyHistory |-> hist1, backgroundNoise |-> bg1]

\* ---- sendBufferedAudio ----
RECURSIVE Concatenate(_)
Concatenate(buf) == IF buf = <<>> THEN <<>> ELSE Head(buf) \o Concatenate(Tail(buf))

\* variant: the buffer is not cleared after the hand-off
sendBufferedAudioKeepsBuffer(buf, size, listenerThrows) ==
    IF Len(buf) = 0
    THEN [audioBuffer |-> buf, bufferSize |-> size, out |-> <<>>, threw |-> FALSE]
    ELSE [audioBuffer |-> buf, bufferSize |-> size,
          out |-> <<Concatenate(buf)>>, threw |-> listenerThrows]

\* variant: the hand-off empties the buffer but keeps the sample count
sendBufferedAudioKeepsSize(buf, size, listenerThrows) ==
    IF Len(buf) = 0
    THEN [audioBuffer |-> buf, bufferSize |-> size, out |-> <<>>, threw |-> FALSE]
    ELSE [audioBuffer |-> <<>>, bufferSize |-> size,
          out |-> <<Concatenate(buf)>>, threw |-> listenerThrows]

sendBufferedAudio(buf, size, listenerThrows) ==
    IF Len(buf) = 0
    THEN [audioBuffer |-> buf, bufferSize |-> size, out |-> <<>>, threw |-> FALSE]
    ELSE IF listenerThrows
    THEN [audioBuffer |-> buf, bufferSize |-> size,
          out |-> <<Concatenate(buf)>>, threw |-> TRUE]
    ELSE [audioBuffer |-> <<>>, bufferSize |-> 0,
          out |-> <<Concatenate(buf)>>, threw |-> FALSE]

\* ---- processAudioChunk ----
\* variant: strict comparison
BufferFullStrict(size) == size > maxBufferSize

BufferFull(size) == size >= maxBufferSize

\* variant: strict comparison
SilenceElapsedStrict(sil, buf) == sil > minSilenceFrames /\ Len(buf) > 0

SilenceElapsed(sil, buf) == sil >= minSilenceFrames /\ Len(buf) > 0

\* the state the logic of processAudioChunk works on
CaptureState ==
    [audioBuffer |-> audioBuffer, bufferSize |-> bufferSize,
     energyHistory |-> energyHistory, backgroundNoise |-> backgroundNoise,
     silenceFrames |-> silenceFrames, speechFrames |-> speechFrames]

NoEffect(s, trace, didThrow) ==
    s @@ [out |-> <<>>, cause |-> "none", pushed |-> <<>>, speech |-> "unknown",
          trace |-> trace, threw |-> didThrow]

\* variant: a speech frame does not reset the silence counter
SpeechBranchKeepsSilence(s, inputData, throwAt) ==
    LET buf1 == Append(s.audioBuffer, inputData)
        size1 == s.bufferSize + Len(inputData)
        sent == IF BufferFull(size1)
                THEN sendBufferedAudio(buf1, size1, throwAt = "segment")
                ELSE [audioBuffer |-> buf1, bufferSize |-> size1, out |-> <<>>, threw |-> FALSE]
    IN [audioBuffer |-> sent.audioBuffer, bufferSize |-> sent.bufferSize,
        speechFrames |-> s.speechFrames + 1, silenceFrames |-> s.silenceFrames,
        out |-> sent.out, cause |-> "full", pushed |-> inputData, threw |-> sent.threw]

\* variant: speech is buffered only from the minSpeechFrames-th consecutive frame
SpeechBranchGated(s, inputData, throwAt) ==
    LET gated == s.speechFrames + 1 < minSpeechFrames
        buf1 == IF gated THEN s.audioBuffer ELSE Append(s.audioBuffer, inputData)
        size1 == IF gated THEN s.bufferSize ELSE s.bufferSize + Len(inputData)
        sent == IF BufferFull(size1)
                THEN sendBufferedAudio(buf1, size1, throwAt = "segment")
                ELSE [audioBuffer |-> buf1, bufferSize |-> size1, out |-> <<>>, threw |-> FALSE]
    IN [audioBuffer |-> sent.audioBuffer, bufferSize |-> sent.bufferSize,
        speechFrames |-> s.speechFrames + 1, silenceFrames |-> 0,
        out |-> sent.out, cause |-> "full",
        pushed |-> IF gated THEN <<>> ELSE inputData, threw |-> sent.threw]

SpeechBranch(s, inputData, throwAt) ==
    LET buf1 == Append(s.audioBuffer, inputData)
        size1 == s.bufferSize + Len(inputData)
        sent == IF BufferFull(size1)
                THEN sendBufferedAudio(buf1, size1, throwAt = "segment")
                ELSE [audioBuffer |-> buf1, bufferSize |-> size1, out |-> <<>>, threw |-> FALSE]
    IN [audioBuffer |-> sent.audioBuffer, bufferSize |-> sent.bufferSize,
        speechFrames |-> s.speechFrames + 1, silenceFrames |-> 0,
        out |-> sent.out, cause |-> "full", pushed |-> inputData, threw |-> sent.threw]

\* variant: a silence frame is buffered as trailing context while accumulating
SilenceBranchBuffers(s, inputData, throwAt) ==
    LET sil1 == s.silenceFrames + 1
        accumulating == Len(s.audioBuffer) > 0
        buf1 == IF accumulating THEN Append(s.audioBuffer, inputData) ELSE s.audioBuffer
        size1 == IF accumulating THEN s.bufferSize + Len(inputData) ELSE s.bufferSize
        sent == IF SilenceElapsed(sil1, buf1)
                THEN sendBufferedAudio(buf1, size1, throwAt = "segment")
                ELSE [audioBuffer |-> buf1, bufferSize |-> size1, out |-> <<>>, threw |-> FALSE]
    IN [audioBuffer |-> sent.audioBuffer, bufferSize |-> sent.bufferSize,
        speechFrames |-> 0, silenceFrames |-> sil1,
        out |-> sent.out, cause |-> "silence",
        pushed |-> IF accumulating THEN inputData ELSE <<>>, threw |-> sent.threw]

SilenceBranch(s, inputData, throwAt) ==
    LET sil1 == s.silenceFrames + 1
        sent == IF SilenceElapsed(sil1, s.audioBuffer)
                THEN sendBufferedAudio(s.audioBuffer, s.bufferSize, throwAt = "segment")
                ELSE [audioBuffer |-> s.audioBuffer, bufferSize |-> s.bufferSize,
                      out |-> <<>>, threw |-> FALSE]
    IN [audioBuffer |-> sent.audioBuffer, bufferSize |-> sent.bufferSize,
        speechFrames |-> 0, silenceFrames |-> sil1,
        out |-> sent.out, cause |-> "silence", pushed |-> <<>>, threw |-> sent.threw]

\* variant: the VAD listener is called before the level listener
processAudioChunkVadFirst(s, inputData, e, throwAt) ==
    IF throwAt = "level"
    THEN NoEffect(s, <<"level", "throw">>, TRUE)
    ELSE LET vadResult == performVAD(e, s.energyHistory, s.backgroundNoise)
             s1 == [s EXCEPT !.energyHistory = vadResult.energyHistory,
                             !.backgroundNoise = vadResult.backgroundNoise]
         IN IF throwAt = "vad"
            THEN NoEffect(s1, <<"level", "vad", "throw">>, TRUE)
            ELSE LET b == IF vadResult.isSpeech
                          THEN SpeechBranch(s1, inputData, throwAt)
                          ELSE SilenceBranch(s1, inputData, throwAt)
                 IN [audioBuffer |-> b.audioBuffer, bufferSize |-> b.bufferSize,
                     energyHistory |-> s1.energyHistory,
                     backgroundNoise |-> s1.backgroundNoise,
                     silenceFrames |-> b.silenceFrames, speechFrames |-> b.speechFrames,
                     out |-> b.out, cause |-> b.cause, pushed |-> b.pushed,
                     speech |-> IF vadResult.isSpeech THEN "speech" ELSE "silence",
                     trace |-> <<"vad", "level">>
                               \o (IF b.out # <<>> THEN <<"segment">> ELSE <<>>)
                               \o (IF b.threw THEN <<"throw">> ELSE <<>>),
                     threw |-> b.threw]

processAudioChunk(s, inputData, e, throwAt) ==
    IF throwAt = "level"
    THEN NoEffect(s, <<"level", "throw">>, TRUE)
    ELSE LET vadResult == performVAD(e, s.energyHistory, s.backgroundNoise)
             s1 == [s EXCEPT !.energyHistory = vadResult.energyHistory,
                             !.backgroundNoise = vadResult.backgroundNoise]
         IN IF throwAt = "vad"
            THEN NoEffect(s1, <<"level", "vad", "throw">>, TRUE)
            ELSE LET b == IF vadResult.isSpeech
                          THEN SpeechBranch(s1, inputData, throwAt)
                          ELSE SilenceBranch(s1, inputData, throwAt)
                 IN [audioBuffer |-> b.audioBuffer, bufferSize |-> b.bufferSize,
                     energyHistory |-> s1.energyHistory,
                     backgroundNoise |-> s1.backgroundNoise,
                     silenceFrames |-> b.silenceFrames, speechFrames |-> b.speechFrames,
                     out |-> b.out, cause |-> b.cause, pushed |-> b.pushed,
                     speech |-> IF vadResult.isSpeech THEN "speech" ELSE "silence",
                     trace |-> <<"level", "vad">>
                               \o (IF b.out # <<>> THEN <<"segment">> ELSE <<>>)
                               \o (IF b.threw THEN <<"throw">> ELSE <<>>),
                     threw |-> b.threw]

Emissions(out, cause, at) == [i \in 1..Len(out) |-> [cause |-> cause, at |-> at, data |-> out[i]]]

\* ---- onaudioprocess ----
OnAudioProcessEffects(e, throwAt) ==
    /\ nFrames < MaxFrames
    /\ processor /\ audioContext = "running"
    /\ nFrames' = nFrames + 1
    /\ lastOp' = "onaudioprocess"
    /\ throwAt # "none" => nThrows < MaxThrows
    /\ IF ~isRecording
       THEN /\ lastTrace' = <<>>
            /\ threw' = FALSE
            /\ UNCHANGED nThrows
            /\ UNCHANGED <<buffering, vadState, frames, appended, emitted>>
       ELSE LET r == processAudioChunk(CaptureState, InputData(nFrames + 1, chunkSize), e, throwAt)
            IN /\ audioBuffer' = r.audioBuffer
               /\ bufferSize' = r.bufferSize
               /\ energyHistory' = r.energyHistory
               /\ backgroundNoise' = r.backgroundNoise
               /\ silenceFrames' = r.silenceFrames
               /\ speechFrames' = r.speechFrames
               /\ frames' = Append(frames, [tag |-> nFrames + 1, speech |-> r.speech])
               /\ appended' = appended \o r.pushed
               /\ emitted' = emitted \o Emissions(r.out, r.cause, Len(frames) + 1)
               /\ lastTrace' = r.trace
               /\ threw' = r.threw
               /\ nThrows' = (IF r.threw THEN nThrows + 1 ELSE nThrows)
    /\ UNCHANGED <<resources, isRecording, chunkSize, pendingInit, pendingStart, nOps, stopIssued>>

OnAudioProcess(e, throwAt) ==
    /\ OnAudioProcessEffects(e, throwAt)
    /\ UNCHANGED <<vadProbe, manager, nReentries, backend, retry>>

Frame == \E e \in Energies : OnAudioProcess(e, "none")

\* the capture and its manager after construction with the given vadThreshold
\* option, in the given environment
Constructed(threshold, environment) ==
    /\ stream = FALSE /\ audioContext = "null" /\ processor = FALSE
    /\ analyser = FALSE /\ microphone = FALSE
    /\ isRecording = FALSE /\ audioBuffer = <<>> /\ bufferSize = 0
    /\ energyHistory = <<>> /\ silenceFrames = 0 /\ speechFrames = 0
    /\ backgroundNoise = InitialBackgroundNoise
    /\ chunkSize \in ChunkSizes
    /\ pendingInit = 0 /\ pendingStart = 0
    /\ nFrames = 0 /\ nOps = 0 /\ frames = <<>> /\ appended = <<>> /\ emitted = <<>>
    /\ lastOp = "constructor" /\ lastTrace = <<>> /\ stopIssued = FALSE /\ threw = FALSE
    /\ nThrows = 0
    /\ vadThreshold = threshold /\ fed = <<>> /\ lastVad = <<>>
    /\ isTranscribing = FALSE /\ sessionId = FALSE /\ recognition = FALSE
    /\ recRunning = FALSE /\ recEnding = FALSE /\ restartTimers = 0
    /\ mgrPc = "idle" /\ denialAt = -1 /\ recStarts = 0
    /\ nReentries = 0
    /\ mode = environment /\ stopPc = "idle" /\ sentSegs = <<>> /\ inflight = {}
    /\ chunks = <<>> /\ discarded = {} /\ lastReturn = "none" /\ mgrStopped = FALSE
    /\ retryMax = 0 /\ retryDelay = 0 /\ retryPc = "idle" /\ retryI = 0 /\ retryCalls = 0
    /\ retryWaits = <<>> /\ retryLog = <<>> /\ retryResult = [kind |-> "none", error |-> 0]

Init == Constructed(DefaultVadThreshold, "browser")

\* ---- initialize ----
\* synchronous part: the media API check, then the wait for getUserMedia
InitializeBegin(mediaSupported) ==
    /\ nOps < MaxOps
    /\ nOps' = nOps + 1
    /\ lastOp' = "initialize"
    /\ threw' = FALSE
    /\ IF ~mediaSupported
       THEN /\ lastTrace' = <<"error">>
            /\ UNCHANGED pendingInit
       ELSE /\ pendingInit < MaxPending
            /\ pendingInit' = pendingInit + 1
            /\ lastTrace' = <<>>
    /\ UNCHANGED <<resources, isRecording, buffering, vadState, chunkSize, pendingStart,
                   nFrames, frames, appended, emitted, stopIssued, nThrows,
                   vadProbe, manager,
                   nReentries, backend, retry>>

InitOutcomes == {"denied", "contextFails", "sourceFails", "analyserFails", "processorFails", "ok"}

\* what initialize holds after getUserMedia settled with the given outcome
Acquired(outcome, contextState) ==
    [stream |-> outcome # "denied",
     audioContext |-> IF outcome \in {"denied", "contextFails"} THEN "keep" ELSE contextState,
     microphone |-> outcome \in {"analyserFails", "processorFails", "ok"},
     analyser |-> outcome \in {"processorFails", "ok"},
     processor |-> outcome = "ok"]

\* continuation after getUserMedia settled
InitializeResume(outcome, contextState) ==
    /\ pendingInit > 0
    /\ pendingInit' = pendingInit - 1
    /\ lastOp' = "initialize"
    /\ threw' = FALSE
    /\ LET a == Acquired(outcome, contextState)
       IN /\ stream' = (IF a.stream THEN TRUE ELSE stream)
          /\ audioContext' = (IF a.audioContext = "keep" THEN audioContext ELSE a.audioContext)
          /\ microphone' = (IF a.microphone THEN TRUE ELSE microphone)
          /\ analyser' = (IF a.analyser THEN TRUE ELSE analyser)
          /\ processor' = (IF a.processor THEN TRUE ELSE processor)
    /\ lastTrace' = (IF outcome = "ok" THEN <<>> ELSE <<"error">>)
    /\ UNCHANGED <<isRecording, buffering, vadState, chunkSize, pendingStart,
                   nFrames, nOps, frames, appended, emitted, stopIssued, nThrows,
                   vadProbe, manager,
                   nReentries, backend, retry>>

\* ---- startRecording ----
\* the synchronous part of startRecording, up to the wait for resume()
StartBeginEffects ==
    /\ stopIssued' = FALSE
    /\ IF audioContext = "null"
       THEN UNCHANGED <<isRecording, pendingStart>>
       ELSE IF audioContext = "suspended"
       THEN /\ pendingStart < MaxPending
            /\ pendingStart' = pendingStart + 1
            /\ UNCHANGED isRecording
       ELSE /\ isRecording' = TRUE
            /\ UNCHANGED pendingStart

StartBegin ==
    /\ nOps < MaxOps
    /\ nOps' = nOps + 1
    /\ lastOp' = "startRecording"
    /\ lastTrace' = <<>>
    /\ threw' = FALSE
    /\ StartBeginEffects
    /\ UNCHANGED <<resources, buffering, vadState, chunkSize, pendingInit,
                   nFrames, frames, appended, emitted, nThrows,
                   vadProbe, manager,
                   nReentries, backend, retry>>

\* what startRecording does once resume() settled
StartResumeEffects(resolved) ==
    /\ pendingStart > 0
    /\ pendingStart' = pendingStart - 1
    /\ IF resolved
       THEN /\ isRecording' = TRUE
            /\ audioContext' = (IF audioContext = "null" THEN "null" ELSE "running")
            /\ lastTrace' = (IF audioContext = "null" THEN <<"error">> ELSE <<>>)
       ELSE /\ lastTrace' = <<"error">>
            /\ UNCHANGED <<isRecording, audioContext>>

\* continuation after audioContext.resume() settled
StartResume(resolved) ==
    /\ StartResumeEffects(resolved)
    /\ lastOp' = "startRecording"
    /\ threw' = FALSE
    /\ UNCHANGED <<stream, processor, analyser, microphone, buffering, vadState, chunkSize,
                   pendingInit, nFrames, nOps, frames, appended, emitted, stopIssued, nThrows,
                   vadProbe, manager,
                   nReentries, backend, retry>>

\* ---- stopRecording ----
\* variant: a single buffered frame is not worth a final segment
HasRemainingSeveral(buf) == Len(buf) > 1

HasRemaining(buf) == Len(buf) > 0

\* variant: the final hand-off is made without looking at the buffer
stopRecordingUnguarded(buf, size) ==
    [audioBuffer |-> <<>>, bufferSize |-> 0, out |-> <<Concatenate(buf)>>, threw |-> FALSE]

stopRecording(buf, size) ==
    IF HasRemaining(buf)
    THEN sendBufferedAudio(buf, size, FALSE)
    ELSE [audioBuffer |-> buf, bufferSize |-> size, out |-> <<>>, threw |-> FALSE]

StopEffects ==
    LET r == stopRecording(audioBuffer, bufferSize)
    IN /\ isRecording' = FALSE
       /\ audioBuffer' = r.audioBuffer
       /\ bufferSize' = r.bufferSize
       /\ emitted' = emitted \o Emissions(r.out, "stop", Len(frames))
       /\ stopIssued' = TRUE
       /\ threw' = FALSE

StopTrace == IF stopRecording(audioBuffer, bufferSize).out # <<>> THEN <<"segment">> ELSE <<>>

\* variant: stopping also gives the device back
StopRecordingReleases ==
    /\ nOps < MaxOps
    /\ nOps' = nOps + 1
    /\ lastOp' = "stopRecording"
    /\ StopEffects
    /\ processor' = FALSE /\ analyser' = FALSE /\ microphone' = FALSE
    /\ audioContext' = "null" /\ stream' = FALSE
    /\ lastTrace' = StopTrace
    /\ UNCHANGED <<vadState, chunkSize, pendingInit, pendingStart,
                   nFrames, frames, appended, nThrows,
                   vadProbe, manager,
                   nReentries, backend, retry>>

StopRecording ==
    /\ nOps < MaxOps
    /\ nOps' = nOps + 1
    /\ lastOp' = "stopRecording"
    /\ StopEffects
    /\ lastTrace' = StopTrace
    /\ UNCHANGED <<resources, vadState, chunkSize, pendingInit, pendingStart,
                   nFrames, frames, appended, nThrows,
                   vadProbe, manager,
                   nReentries, backend, retry>>

\* ---- cleanup ----
ReleaseTrace ==
    (IF processor THEN <<"release processor">> ELSE <<>>)
    \o (IF analyser THEN <<"release analyser">> ELSE <<>>)
    \o (IF microphone THEN <<"release microphone">> ELSE <<>>)
    \o (IF audioContext # "null" THEN <<"release audioContext">> ELSE <<>>)
    \o (IF stream THEN <<"release stream">> ELSE <<>>)

CleanupTrace == StopTrace \o ReleaseTrace

\* variant: the media stream's tracks are not stopped
CleanupLeavesStream ==
    /\ nOps < MaxOps
    /\ nOps' = nOps + 1
    /\ lastOp' = "cleanup"
    /\ StopEffects
    /\ processor' = FALSE
    /\ analyser' = FALSE
    /\ microphone' = FALSE
    /\ audioContext' = "null"
    /\ lastTrace' = CleanupTrace
    /\ UNCHANGED <<stream, vadState, chunkSize, pendingInit, pendingStart, nFrames, frames,
                   appended, nThrows, vadProbe, manager,
                   nReentries, backend, retry>>

Cleanup ==
    /\ nOps < MaxOps
    /\ nOps' = nOps + 1
    /\ lastOp' = "cleanup"
    /\ StopEffects
    /\ processor' = FALSE
    /\ analyser' = FALSE
    /\ microphone' = FALSE
    /\ audioContext' = "null"
    /\ stream' = FALSE
    /\ lastTrace' = CleanupTrace
    /\ UNCHANGED <<vadState, chunkSize, pendingInit, pendingStart, nFrames, frames, appended, nThrows,
                   vadProbe, manager,
                   nReentries, backend, retry>>

Initialize ==
    \/ \E m \in BOOLEAN : InitializeBegin(m)
    \/ \E o \in InitOutcomes, c \in {"suspended", "running"} : InitializeResume(o, c)

StartRecording ==
    \/ StartBegin
    \/ \E r \in BOOLEAN : StartResume(r)

Next ==
    \/ Initialize
    \/ StartRecording
    \/ StopRecording
    \/ Cleanup
    \/ Frame

Spec == Init /\ [][Next]_vars

\* a listener throws while the frame is processed
FrameThrow == \E e \in Energies, t \in {"level", "vad", "segment"} : OnAudioProcess(e, t)

NextThrow == Next \/ FrameThrow

SpecThrow == Init /\ [][NextThrow]_vars

\* ---- a segment listener that calls back into the capture ----
ReentrantCalls == {"stopRecording", "cleanup"}

\* A frame whose flush reaches a listener that calls stopRecording or cleanup
\* from inside the callback (294): the buffer is cleared only after the
\* callback returns (297-298), so the nested stopRecording finds it as it was
\* handed over. The nested invocation of the listener returns normally.
OnAudioProcessReentrant(e, call) ==
    /\ nFrames < MaxFrames
    /\ nReentries < MaxReentries
    /\ processor /\ audioContext = "running"
    /\ isRecording
    /\ LET inputData == InputData(nFrames + 1, chunkSize)
           r == processAudioChunk(CaptureState, inputData, e, "none")
           atCallback == IF r.speech = "speech" THEN Append(audioBuffer, inputData)
                         ELSE audioBuffer
           sizeAtCallback == IF r.speech = "speech" THEN bufferSize + Len(inputData)
                             ELSE bufferSize
           nested == stopRecording(atCallback, sizeAtCallback)
       IN /\ r.out # <<>>
          /\ audioBuffer' = r.audioBuffer
          /\ bufferSize' = r.bufferSize
          /\ energyHistory' = r.energyHistory
          /\ backgroundNoise' = r.backgroundNoise
          /\ silenceFrames' = r.silenceFrames
          /\ speechFrames' = r.speechFrames
          /\ frames' = Append(frames, [tag |-> nFrames + 1, speech |-> r.speech])
          /\ appended' = appended \o r.pushed
          /\ emitted' = emitted \o Emissions(r.out, r.cause, Len(frames) + 1)
                                \o Emissions(nested.out, "stop", Len(frames) + 1)
          /\ lastTrace' = r.trace \o (IF nested.out # <<>> THEN <<"segment">> ELSE <<>>)
                                  \o (IF call = "cleanup" THEN ReleaseTrace ELSE <<>>)
    /\ nFrames' = nFrames + 1
    /\ nReentries' = nReentries + 1
    /\ lastOp' = "onaudioprocess"
    /\ isRecording' = FALSE
    /\ stopIssued' = TRUE
    /\ threw' = FALSE
    /\ IF call = "cleanup"
       THEN /\ processor' = FALSE /\ analyser' = FALSE /\ microphone' = FALSE
            /\ audioContext' = "null" /\ stream' = FALSE
       ELSE UNCHANGED resources
    /\ UNCHANGED <<chunkSize, pendingInit, pendingStart, nOps, nThrows,
                   vadProbe, manager, backend, retry>>

FrameReentrant == \E e \in Energies, c \in ReentrantCalls : OnAudioProcessReentrant(e, c)

NextReentrant == Next \/ FrameReentrant

SpecReentrant == Init /\ [][NextReentrant]_vars

\* ---- RealTimeTranscriptionManager in browser mode (Web Speech API) ----
\* In browser mode the segment listener only logs, so the frame callback is
\* left to Spec; the capture is private to the manager and driven through it.
RecognizerErrors == {"not-allowed", "network", "no-speech"}

\* startTranscription up to its first wait: setupWebSpeechAPI, then the
\* synchronous part of audioCapture.startRecording()
StartTranscriptionBegin(supported, startThrows) ==
    /\ mgrPc = "idle"
    /\ nOps < MaxOps
    /\ nOps' = nOps + 1
    /\ lastOp' = "startTranscription"
    /\ threw' = FALSE
    /\ sessionId' = TRUE
    /\ supported => recStarts < MaxRecStarts
    /\ recStarts' = (IF supported THEN recStarts + 1 ELSE recStarts)
    /\ recognition' = (supported \/ recognition)
    /\ IF supported /\ startThrows
       THEN /\ lastTrace' = <<"error">>
            /\ UNCHANGED <<recRunning, isTranscribing, mgrPc, isRecording, pendingStart,
                           stopIssued>>
       ELSE /\ recRunning' = (supported \/ recRunning)
            /\ lastTrace' = <<>>
            /\ StartBeginEffects
            /\ isTranscribing' = (IF audioContext = "running" THEN TRUE ELSE isTranscribing)
            /\ mgrPc' = (IF audioContext = "suspended" THEN "awaitingStart" ELSE "idle")
    /\ UNCHANGED <<resources, buffering, vadState, chunkSize, pendingInit,
                   nFrames, frames, appended, emitted, nThrows, vadProbe,
                   recEnding, restartTimers, denialAt,
                   nReentries, backend, retry>>

\* startTranscription after audioCapture.startRecording() settled
StartTranscriptionResume(resolved) ==
    /\ mgrPc = "awaitingStart"
    /\ StartResumeEffects(resolved)
    /\ mgrPc' = "idle"
    /\ isTranscribing' = (IF resolved /\ audioContext # "null" THEN TRUE ELSE isTranscribing)
    /\ lastOp' = "startTranscription"
    /\ threw' = FALSE
    /\ UNCHANGED <<stream, processor, analyser, microphone, buffering, vadState, chunkSize,
                   pendingInit, nFrames, nOps, frames, appended, emitted, stopIssued, nThrows,
                   vadProbe, sessionId, recognition, recRunning, recEnding, restartTimers,
                   denialAt, recStarts,
                   nReentries, backend, retry>>

\* stopTranscription: in browser mode it runs to its end without waiting
StopTranscriptionEffects ==
    /\ isTranscribing' = FALSE
    /\ StopEffects
    /\ recognition' = FALSE
    /\ recRunning' = (IF recognition THEN FALSE ELSE recRunning)
    /\ recEnding' = (IF recognition THEN (recRunning \/ recEnding) ELSE recEnding)
    /\ sessionId' = FALSE

StopTranscription ==
    /\ nOps < MaxOps
    /\ nOps' = nOps + 1
    /\ lastOp' = "stopTranscription"
    /\ StopTranscriptionEffects
    /\ lastTrace' = StopTrace
    /\ UNCHANGED <<resources, vadState, chunkSize, pendingInit, pendingStart,
                   nFrames, frames, appended, nThrows, vadProbe,
                   restartTimers, mgrPc, denialAt, recStarts,
                   nReentries, backend, retry>>

\* manager cleanup: stopTranscription, then audioCapture.cleanup()
ManagerCleanup ==
    /\ nOps < MaxOps
    /\ nOps' = nOps + 1
    /\ lastOp' = "cleanup"
    /\ StopTranscriptionEffects
    /\ processor' = FALSE /\ analyser' = FALSE /\ microphone' = FALSE
    /\ audioContext' = "null" /\ stream' = FALSE
    /\ lastTrace' = CleanupTrace
    /\ UNCHANGED <<vadState, chunkSize, pendingInit, pendingStart, nFrames, frames, appended,
                   nThrows, vadProbe, restartTimers, mgrPc, denialAt, recStarts,
                   nReentries, backend, retry>>

\* recognition.onerror: the error is reported; the recognizer then ends
RecognitionOnError(kind) ==
    /\ recRunning
    /\ recRunning' = FALSE
    /\ recEnding' = TRUE
    /\ denialAt' = (IF kind = "not-allowed" THEN nOps ELSE denialAt)
    /\ lastOp' = "recognition.onerror"
    /\ lastTrace' = <<"error">>
    /\ threw' = FALSE
    /\ UNCHANGED <<resources, isRecording, buffering, vadState, chunkSize, pendingInit,
                   pendingStart, nFrames, nOps, frames, appended, emitted, stopIssued, nThrows,
                   vadProbe, isTranscribing, sessionId, recognition, restartTimers, mgrPc,
                   recStarts,
                   nReentries, backend, retry>>

\* recognition.onend: after an error, after stop(), or on the recognizer's own
RecognitionOnEnd ==
    /\ recRunning \/ recEnding
    /\ recRunning' = FALSE
    /\ recEnding' = FALSE
    /\ IF isTranscribing /\ recognition
       THEN /\ restartTimers < MaxPending
            /\ restartTimers' = restartTimers + 1
       ELSE UNCHANGED restartTimers
    /\ lastOp' = "recognition.onend"
    /\ lastTrace' = <<>>
    /\ threw' = FALSE
    /\ UNCHANGED <<resources, isRecording, buffering, vadState, chunkSize, pendingInit,
                   pendingStart, nFrames, nOps, frames, appended, emitted, stopIssued, nThrows,
                   vadProbe, isTranscribing, sessionId, recognition, mgrPc, denialAt,
                   recStarts,
                   nReentries, backend, retry>>

\* the 100 ms timer armed by onend
RestartTimer ==
    /\ restartTimers > 0
    /\ restartTimers' = restartTimers - 1
    /\ IF isTranscribing /\ recognition
       THEN /\ recStarts < MaxRecStarts
            /\ recStarts' = recStarts + 1
            /\ recRunning' = TRUE
            /\ lastTrace' = (IF recRunning THEN <<"restart failed">> ELSE <<"restart">>)
       ELSE /\ lastTrace' = <<>>
            /\ UNCHANGED <<recStarts, recRunning>>
    /\ lastOp' = "restart timer"
    /\ threw' = FALSE
    /\ UNCHANGED <<resources, isRecording, buffering, vadState, chunkSize, pendingInit,
                   pendingStart, nFrames, nOps, frames, appended, emitted, stopIssued, nThrows,
                   vadProbe, isTranscribing, sessionId, recognition, recEnding, mgrPc,
                   denialAt,
                   nReentries, backend, retry>>

StartTranscription ==
    \/ \E s \in BOOLEAN, t \in BOOLEAN : StartTranscriptionBegin(s, t)
    \/ \E r \in BOOLEAN : StartTranscriptionResume(r)

Recognizer ==
    \/ \E k \in RecognizerErrors : RecognitionOnError(k)
    \/ RecognitionOnEnd
    \/ RestartTimer

NextManager ==
    \/ Initialize
    \/ StartTranscription
    \/ StopTranscription
    \/ ManagerCleanup
    \/ Recognizer

SpecManager == Init /\ [][NextManager]_vars

\* ---- RealTimeTranscriptionManager with a transcription backend ----
\* Electron (native Whisper over IPC) and Tauri (realtime API): the segment
\* listener hands every segment to processAudioForTranscription.
Environments == {"electron", "tauri"}

InitBackend == \E m \in Environments : Constructed(DefaultVadThreshold, m) /\ chunkSize = 4

recognizer == <<recognition, recRunning, recEnding, restartTimers, denialAt, recStarts>>
handoff == <<sentSegs, inflight, chunks, discarded>>

CaptureUntouched ==
    UNCHANGED <<resources, isRecording, buffering, vadState, chunkSize, pendingInit, pendingStart,
                nFrames, frames, appended, emitted, stopIssued, nThrows>>

\* the test at the head of processAudioForTranscription
Accepts(transcribing, session) == transcribing /\ session

\* the segment listener is called with the segments first..last of emitted
Handoff(accepting, first, last) ==
    LET segs == [i \in 1..(last - first + 1) |-> first + i - 1]
    IN IF accepting
       THEN /\ sentSegs' = sentSegs \o segs
            /\ inflight' = inflight \cup (first..last)
            /\ UNCHANGED discarded
       ELSE /\ discarded' = discarded \cup (first..last)
            /\ UNCHANGED <<sentSegs, inflight>>

\* startTranscription up to its first wait
StartBackendBegin ==
    /\ mgrPc = "idle" /\ stopPc = "idle"
    /\ nOps < MaxOps
    /\ nOps' = nOps + 1
    /\ lastOp' = "startTranscription"
    /\ lastTrace' = <<>>
    /\ threw' = FALSE
    /\ lastReturn' = "pending"
    /\ mgrStopped' = FALSE
    /\ IF mode = "electron"
       THEN sessionId' = TRUE /\ mgrPc' = "listModels"
       ELSE UNCHANGED sessionId /\ mgrPc' = "startRealtime"
    /\ CaptureUntouched
    /\ UNCHANGED <<isTranscribing, recognizer, mode, stopPc, handoff, vadProbe, nReentries, retry>>

\* startTranscription returns null from its catch block or its audio test
ReturnsNull(reported) ==
    /\ lastReturn' = "null"
    /\ mgrPc' = "idle"
    /\ lastTrace' = (IF reported THEN <<"error">> ELSE <<>>)
    /\ UNCHANGED isTranscribing

\* Electron: listModels or loadModel settled; then isTranscribing is set and
\* startRecording is called without waiting for it
StartBackendModels(outcome) ==
    /\ mgrPc \in {"listModels", "loadModel"}
    /\ outcome = "needsLoad" => mgrPc = "listModels"
    /\ lastOp' = "startTranscription"
    /\ threw' = FALSE
    /\ IF outcome = "throws"
       THEN /\ ReturnsNull(TRUE)
            /\ UNCHANGED <<isRecording, pendingStart, stopIssued>>
       ELSE IF outcome = "needsLoad"
       THEN /\ mgrPc' = "loadModel"
            /\ UNCHANGED <<isTranscribing, lastReturn, lastTrace, isRecording, pendingStart,
                           stopIssued>>
       ELSE /\ isTranscribing' = TRUE
            /\ StartBeginEffects
            /\ lastReturn' = "id"
            /\ mgrPc' = "idle"
            /\ lastTrace' = <<>>
    /\ UNCHANGED <<resources, buffering, vadState, chunkSize, pendingInit, nFrames, nOps, frames,
                   appended, emitted, nThrows, sessionId, recognizer, mode, stopPc, handoff,
                   mgrStopped, vadProbe, nReentries, retry>>

\* Tauri: realtimeApi.startRealtime settled
StartBackendRealtime(ok) ==
    /\ mgrPc = "startRealtime"
    /\ lastOp' = "startTranscription"
    /\ threw' = FALSE
    /\ IF ok
       THEN /\ sessionId' = TRUE
            /\ mgrPc' = "listen"
            /\ UNCHANGED <<isTranscribing, lastReturn, lastTrace>>
       ELSE /\ ReturnsNull(TRUE)
            /\ UNCHANGED sessionId
    /\ CaptureUntouched
    /\ UNCHANGED <<nOps, recognizer, mode, stopPc, handoff, mgrStopped, vadProbe, nReentries,
                   retry>>

\* Tauri: listen settled; then the synchronous part of startRecording
StartBackendListen(ok) ==
    /\ mgrPc = "listen"
    /\ lastOp' = "startTranscription"
    /\ threw' = FALSE
    /\ IF ~ok
       THEN /\ ReturnsNull(TRUE)
            /\ UNCHANGED <<isRecording, pendingStart, stopIssued>>
       ELSE /\ StartBeginEffects
            /\ IF audioContext = "suspended"
               THEN /\ mgrPc' = "awaitingStart"
                    /\ UNCHANGED <<isTranscribing, lastReturn, lastTrace>>
               ELSE IF audioContext = "running"
               THEN /\ isTranscribing' = TRUE
                    /\ lastReturn' = "id"
                    /\ mgrPc' = "idle"
                    /\ lastTrace' = <<>>
               ELSE ReturnsNull(FALSE)
    /\ UNCHANGED <<resources, buffering, vadState, chunkSize, pendingInit, nFrames, nOps, frames,
                   appended, emitted, nThrows, sessionId, recognizer, mode, stopPc, handoff,
                   mgrStopped, vadProbe, nReentries, retry>>

\* Tauri: the awaited startRecording settled
StartBackendResume(resolved) ==
    /\ mgrPc = "awaitingStart"
    /\ StartResumeEffects(resolved)
    /\ mgrPc' = "idle"
    /\ isTranscribing' = (IF resolved /\ audioContext # "null" THEN TRUE ELSE isTranscribing)
    /\ lastReturn' = (IF resolved /\ audioContext # "null" THEN "id" ELSE "null")
    /\ lastOp' = "startTranscription"
    /\ threw' = FALSE
    /\ UNCHANGED <<stream, processor, analyser, microphone, buffering, vadState, chunkSize,
                   pendingInit, nFrames, nOps, frames, appended, emitted, stopIssued, nThrows,
                   sessionId, recognizer, mode, stopPc, handoff, mgrStopped, vadProbe,
                   nReentries, retry>>

\* Electron: the startRecording that nobody waits for settled
CaptureStartSettles(resolved) ==
    /\ mgrPc # "awaitingStart"
    /\ StartResume(resolved)

\* stopTranscription up to its wait for stopRealtime: isTranscribing is cleared
\* (509) before stopRecording flushes (510)
StopBackendEffects ==
    /\ isTranscribing' = FALSE
    /\ StopEffects
    /\ Handoff(Accepts(FALSE, sessionId), Len(emitted) + 1, Len(emitted'))
    /\ UNCHANGED <<chunks, recognizer, sessionId, mode, lastReturn, mgrPc>>
    /\ IF sessionId
       THEN stopPc' = "stopRealtime" /\ UNCHANGED mgrStopped
       ELSE stopPc' = "idle" /\ mgrStopped' = TRUE

StopBackendBegin ==
    /\ mgrPc = "idle" /\ stopPc = "idle"
    /\ nOps < MaxOps
    /\ nOps' = nOps + 1
    /\ lastOp' = "stopTranscription"
    /\ StopBackendEffects
    /\ lastTrace' = StopTrace
    /\ UNCHANGED <<resources, vadState, chunkSize, pendingInit, pendingStart, nFrames, frames,
                   appended, nThrows, vadProbe, nReentries, retry>>

\* realtimeApi.stopRealtime settled: the session id is cleared, or the error
\* is rethrown and the id stays
StopBackendSettles(ok) ==
    /\ stopPc = "stopRealtime"
    /\ stopPc' = "idle"
    /\ sessionId' = (IF ok THEN FALSE ELSE sessionId)
    /\ mgrStopped' = ok
    /\ lastOp' = "stopTranscription"
    /\ lastTrace' = (IF ok THEN <<>> ELSE <<"throw">>)
    /\ threw' = FALSE
    /\ CaptureUntouched
    /\ UNCHANGED <<nOps, isTranscribing, recognizer, mgrPc, mode, handoff, lastReturn, vadProbe,
                   nReentries, retry>>

\* manager cleanup: stopTranscription is started, then audioCapture.cleanup()
BackendCleanup ==
    /\ mgrPc = "idle" /\ stopPc = "idle"
    /\ nOps < MaxOps
    /\ nOps' = nOps + 1
    /\ lastOp' = "cleanup"
    /\ StopBackendEffects
    /\ processor' = FALSE /\ analyser' = FALSE /\ microphone' = FALSE
    /\ audioContext' = "null" /\ stream' = FALSE
    /\ lastTrace' = CleanupTrace
    /\ UNCHANGED <<vadState, chunkSize, pendingInit, pendingStart, nFrames, frames, appended,
                   nThrows, vadProbe, nReentries, retry>>

\* a frame: its segment, if any, goes to processAudioForTranscription
BackendFrame(e) ==
    /\ OnAudioProcessEffects(e, "none")
    /\ Handoff(Accepts(isTranscribing, sessionId), Len(emitted) + 1, Len(emitted'))
    /\ UNCHANGED <<manager, mode, stopPc, chunks, lastReturn, mgrStopped, vadProbe, nReentries,
                   retry>>

ReplyOutcomes == {"result", "empty", "error"}

\* the backend answered for a segment: a result goes to the chunk listener
BackendReply(seg, outcome) ==
    /\ seg \in inflight
    /\ inflight' = inflight \ {seg}
    /\ chunks' = (IF outcome = "result"
                  THEN Append(chunks, [seg |-> seg, afterStop |-> mgrStopped])
                  ELSE chunks)
    /\ lastOp' = "processAudioForTranscription"
    /\ lastTrace' = (IF outcome = "result" THEN <<"chunk">>
                     ELSE IF outcome = "error" THEN <<"error">> ELSE <<>>)
    /\ threw' = FALSE
    /\ CaptureUntouched
    /\ UNCHANGED <<nOps, manager, mode, stopPc, sentSegs, discarded, lastReturn, mgrStopped,
                   vadProbe, nReentries, retry>>

StartBackend ==
    \/ StartBackendBegin
    \/ \E o \in {"throws", "needsLoad", "ready"} : StartBackendModels(o)
    \/ \E ok \in BOOLEAN : StartBackendRealtime(ok)
    \/ \E ok \in BOOLEAN : StartBackendListen(ok)
    \/ \E r \in BOOLEAN : StartBackendResume(r)
    \/ \E r \in BOOLEAN : CaptureStartSettles(r)

StopBackend ==
    \/ StopBackendBegin
    \/ \E ok \in BOOLEAN : StopBackendSettles(ok)

NextBackend ==
    \/ Initialize
    \/ StartBackend
    \/ StopBackend
    \/ BackendCleanup
    \/ \E e \in Energies : BackendFrame(e)
    \/ \E seg \in 1..MaxFrames, o \in ReplyOutcomes : BackendReply(seg, o)

SpecBackend == InitBackend /\ [][NextBackend]_vars

\* ---- withRetry ----
Delays == {1, 1000}
\* how an invocation of the operation settles: it resolves, or it rejects with
\* an AppError that is recoverable, an AppError that is not, or another value
OperationOutcomes == {"success", "recoverable", "fatal", "other"}

RECURSIVE Pow2(_)
Pow2(k) == IF k = 0 THEN 1 ELSE 2 * Pow2(k - 1)

\* variant: the delay is also waited after the last attempt
ShouldWaitAlways(i, maxRetries) == i < maxRetries

ShouldWait(i, maxRetries) == i < maxRetries - 1

\* the other variables of the module are left alone by withRetry
RetryFrame ==
    UNCHANGED <<resources, isRecording, buffering, vadState, chunkSize, pendingInit, pendingStart,
                nFrames, nOps, frames, appended, emitted, lastTrace, stopIssued, threw, nThrows,
                vadProbe, manager, nReentries, backend>>

\* the call: the loop is entered and the operation invoked, or, with no
\* attempt allowed, the final throw is reached at once
WithRetryCall(maxRetries, delay) ==
    /\ retryPc = "idle" /\ retryResult.kind = "none"
    /\ retryMax' = maxRetries /\ retryDelay' = delay
    /\ retryI' = 0
    /\ IF 0 < maxRetries
       THEN /\ retryCalls' = retryCalls + 1
            /\ retryPc' = "awaiting"
            /\ UNCHANGED retryResult
       ELSE /\ retryPc' = "done"
            /\ retryResult' = [kind |-> "generic", error |-> 0]
            /\ UNCHANGED retryCalls
    /\ lastOp' = "withRetry"
    /\ UNCHANGED <<retryWaits, retryLog>>
    /\ RetryFrame

\* the awaited operation settled
OperationSettles(outcome) ==
    /\ retryPc = "awaiting"
    /\ retryLog' = Append(retryLog, outcome)
    /\ lastOp' = "withRetry"
    /\ IF outcome = "success"
       THEN /\ retryResult' = [kind |-> "returned", error |-> 0]
            /\ retryPc' = "done"
            /\ UNCHANGED <<retryI, retryWaits, retryCalls>>
       ELSE IF outcome = "fatal"
       THEN /\ retryResult' = [kind |-> "threw", error |-> Len(retryLog) + 1]
            /\ retryPc' = "done"
            /\ UNCHANGED <<retryI, retryWaits, retryCalls>>
       ELSE IF ShouldWait(retryI, retryMax)
       THEN /\ retryWaits' = Append(retryWaits, retryDelay * Pow2(retryI))
            /\ retryPc' = "waiting"
            /\ UNCHANGED <<retryI, retryResult, retryCalls>>
       ELSE IF retryI + 1 < retryMax
       THEN /\ retryI' = retryI + 1
            /\ retryPc' = "awaiting"
            /\ retryCalls' = retryCalls + 1
            /\ UNCHANGED <<retryWaits, retryResult>>
       ELSE /\ retryI' = retryI + 1
            /\ retryResult' = [kind |-> "threw", error |-> Len(retryLog) + 1]
            /\ retryPc' = "done"
            /\ UNCHANGED <<retryWaits, retryCalls>>
    /\ UNCHANGED <<retryMax, retryDelay>>
    /\ RetryFrame

\* the timer of the wait fired: next iteration, the operation is invoked again
WaitElapsed ==
    /\ retryPc = "waiting"
    /\ retryI' = retryI + 1
    /\ IF retryI + 1 < retryMax
       THEN /\ retryCalls' = retryCalls + 1
            /\ retryPc' = "awaiting"
            /\ UNCHANGED retryResult
       ELSE /\ retryPc' = "done"
            /\ retryResult' = [kind |-> "threw", error |-> Len(retryLog)]
            /\ UNCHANGED retryCalls
    /\ lastOp' = "withRetry"
    /\ UNCHANGED <<retryMax, retryDelay, retryWaits, retryLog>>
    /\ RetryFrame

NextRetry ==
    \/ \E m \in 0..MaxRetries, d \in Delays : WithRetryCall(m, d)
    \/ \E o \in OperationOutcomes : OperationSettles(o)
    \/ WaitElapsed

SpecRetry == Init /\ [][NextRetry]_vars

\* ---- performVAD on its own: streams of frame energies ----
\* number of places where the stream changes its level
Changes(es) == Cardinality({i \in 1..(Len(es) - 1) : es[i] # es[i + 1]})

\* performVAD never reads the chunk size: one size is enough
InitVAD == \E t \in VadThresholds : Constructed(t, "browser") /\ chunkSize = 4

VADStep(e) ==
    /\ Len(fed) < MaxVadFrames
    /\ Changes(Append(fed, e)) <= MaxChanges
    /\ LET r == performVAD(e, energyHistory, backgroundNoise)
       IN /\ energyHistory' = r.energyHistory
          /\ backgroundNoise' = r.backgroundNoise
          /\ lastVad' = <<[energy |-> e, isSpeech |-> r.isSpeech, confidence |-> r.confidence,
                           recentSum |-> r.recentSum, recentLen |-> r.recentLen,
                           threshold |-> r.threshold]>>
    /\ fed' = Append(fed, e)
    /\ lastOp' = "performVAD"
    /\ UNCHANGED <<resources, isRecording, buffering, silenceFrames, speechFrames, chunkSize,
                   pendingInit, pendingStart, nFrames, nOps, frames, appended, emitted,
                   lastTrace, stopIssued, threw, nThrows, vadThreshold, manager,
                   nReentries, backend, retry>>

NextVAD == \E e \in VadEnergies : VADStep(e)

SpecVAD == InitVAD /\ [][NextVAD]_vars

TypeOK ==
    /\ stream \in BOOLEAN /\ processor \in BOOLEAN
    /\ analyser \in BOOLEAN /\ microphone \in BOOLEAN
    /\ audioContext \in {"null", "suspended", "running"}
    /\ isRecording \in BOOLEAN
    /\ bufferSize \in Nat /\ silenceFrames \in Nat /\ speechFrames \in Nat
    /\ nFrames \in 0..MaxFrames /\ nOps \in 0..MaxOps /\ nThrows \in 0..MaxThrows
    /\ vadThreshold \in VadThresholds \cup {DefaultVadThreshold}
    /\ Len(fed) <= MaxVadFrames /\ Len(lastVad) <= 1
    /\ isTranscribing \in BOOLEAN /\ sessionId \in BOOLEAN /\ recognition \in BOOLEAN
    /\ recRunning \in BOOLEAN /\ recEnding \in BOOLEAN
    /\ restartTimers \in 0..MaxPending
    /\ mgrPc \in {"idle", "awaitingStart", "listModels", "loadModel", "startRealtime", "listen"}
    /\ stopPc \in {"idle", "stopRealtime"}
    /\ mode \in {"browser"} \cup Environments
    /\ lastReturn \in {"none", "pending", "null", "id"} /\ mgrStopped \in BOOLEAN
    /\ inflight \subseteq 1..MaxFrames /\ discarded \subseteq 1..MaxFrames
    /\ nReentries \in 0..MaxReentries
    /\ retryMax \in 0..MaxRetries /\ retryCalls \in 0..MaxRetries
    /\ denialAt \in -1..MaxOps /\ recStarts \in 0..MaxRecStarts

\* ---- vocabulary of the properties ----
RECURSIVE FlattenSeq(_)
FlattenSeq(ss) == IF ss = <<>> THEN <<>> ELSE Head(ss) \o FlattenSeq(Tail(ss))

EmittedData == [i \in 1..Len(emitted) |-> emitted[i].data]
Range(f) == {f[i] : i \in DOMAIN f}
SamplesOf(tag) == [i \in 1..chunkSize |-> tag]
StopOps == {"stopRecording", "cleanup"}
ReleaseEvents == {"release processor", "release analyser", "release microphone",
                  "release audioContext", "release stream"}
\* the step is a frame callback that went through processAudioChunk
FrameProcessed == lastOp' = "onaudioprocess" /\ Len(frames') = Len(frames) + 1
LastFrame == frames[Len(frames)]
SpeechTags == {frames[i].tag : i \in {j \in 1..Len(frames) : frames[j].speech = "speech"}}
SilenceTags == {frames[i].tag : i \in {j \in 1..Len(frames) : frames[j].speech = "silence"}}
Positions(trace, ev) == {i \in 1..Len(trace) : trace[i] = ev}

\* C1: the emitted segments, concatenated in emission order, followed by what is
\* still buffered, are exactly the appended frames in arrival order; segments
\* are made of whole frames; once stopRecording has run nothing is left behind.
C1_SegmentsPartitionAppended ==
    /\ FlattenSeq(EmittedData) \o FlattenSeq(audioBuffer) = appended
    /\ \A i \in 1..Len(emitted) : Len(emitted[i].data) % chunkSize = 0
    /\ lastOp \in StopOps => FlattenSeq(EmittedData) = appended

C1_Witness ==
    /\ lastOp = "stopRecording"
    /\ Len(emitted) >= 2
    /\ emitted[Len(emitted)].cause = "stop"
    /\ SilenceTags # {}

\* C2: stopRecording or cleanup on a non-empty buffer emits exactly one segment,
\* the concatenation of the buffered frames in order, and in cleanup that
\* emission precedes every release of a device resource.
C2_StopFlushesBeforeRelease ==
    [][(lastOp' \in StopOps /\ audioBuffer # <<>>) =>
         /\ Len(emitted') = Len(emitted) + 1
         /\ SubSeq(emitted', 1, Len(emitted)) = emitted
         /\ emitted'[Len(emitted')].data = FlattenSeq(audioBuffer)
         /\ audioBuffer' = <<>>
         /\ Cardinality(Positions(lastTrace', "segment")) = 1
         /\ \A i \in 1..Len(lastTrace') :
              lastTrace'[i] \in ReleaseEvents =>
                \A j \in Positions(lastTrace', "segment") : j < i]_vars

C2_Witness ==
    /\ lastOp = "cleanup"
    /\ Len(lastTrace) >= 6
    /\ lastTrace[1] = "segment"
    /\ emitted # <<>>
    /\ Len(emitted[Len(emitted)].data) >= 2 * chunkSize

\* C3: stopRecording or cleanup on an empty buffer emits nothing, and no
\* emitted segment is ever empty.
C3_NoEmptySegment ==
    /\ [](\A i \in 1..Len(emitted) : Len(emitted[i].data) > 0)
    /\ [][(lastOp' \in StopOps /\ audioBuffer = <<>>) =>
            emitted' = emitted /\ lastTrace' \in Seq(ReleaseEvents)]_vars

C3_Witness ==
    /\ lastOp = "stopRecording"
    /\ lastTrace = <<>>
    /\ emitted # <<>>
    /\ emitted[Len(emitted)].cause = "stop"
    /\ emitted[Len(emitted)].at = Len(frames)

\* C4: a frame causes a silence flush exactly when it is a silence frame that
\* arrives on a non-empty buffer and takes the silence counter to
\* minSilenceFrames; that flush emits one segment, and silence frames on an
\* empty buffer emit nothing.
C4_SilenceFlushAtThreshold ==
    /\ [](audioBuffer # <<>> => silenceFrames < minSilenceFrames)
    /\ [][FrameProcessed =>
            /\ Len(emitted') <= Len(emitted) + 1
            /\ frames'[Len(frames')].speech = "silence" =>
                 /\ emitted' # emitted <=>
                      (audioBuffer # <<>> /\ silenceFrames + 1 = minSilenceFrames)
                 /\ emitted' # emitted =>
                      /\ emitted'[Len(emitted')].cause = "silence"
                      /\ silenceFrames' = minSilenceFrames]_vars

C4_Witness ==
    /\ Len(emitted) = 1
    /\ emitted[1].cause = "silence"
    /\ Len(frames) > emitted[1].at
    /\ lastOp = "onaudioprocess"
    /\ LastFrame.speech = "silence"
    /\ silenceFrames > minSilenceFrames

AllSpeech == \A i \in 1..Len(frames) : frames[i].speech = "speech"
NoEarlyStop == \A i \in 1..Len(emitted) : emitted[i].cause = "stop" => emitted[i].at = Len(frames)

C6_ExactlyOneFullFlush ==
    (AllSpeech /\ NoEarlyStop) =>
        /\ Len(frames) * chunkSize = maxBufferSize =>
             /\ Len(emitted) = 1
             /\ emitted[1].cause = "full"
             /\ emitted[1].at = Len(frames)
             /\ Len(emitted[1].data) = maxBufferSize
             /\ audioBuffer = <<>>
        /\ Len(frames) * chunkSize < maxBufferSize =>
             \A i \in 1..Len(emitted) : emitted[i].cause = "stop"

C6_Witness ==
    /\ AllSpeech
    /\ Len(frames) * chunkSize = maxBufferSize
    /\ Len(frames) > 1
    /\ lastOp = "stopRecording"
    /\ Len(emitted) = 1

\* C7 (as stated): maxBufferSize is a hard cap on the buffered sample count and
\* on the length of every emitted segment.
C7_HardCap ==
    /\ bufferSize <= maxBufferSize
    /\ \A i \in 1..Len(emitted) : Len(emitted[i].data) <= maxBufferSize

\* C7 (amended): maxBufferSize is the flush threshold: between frames the
\* buffered sample count is below it, and an emitted segment is shorter than
\* maxBufferSize + chunkSize.
C7_FlushThreshold ==
    /\ bufferSize < maxBufferSize
    /\ bufferSize = Len(FlattenSeq(audioBuffer))
    /\ \A i \in 1..Len(emitted) :
         /\ Len(emitted[i].data) < maxBufferSize + chunkSize
         /\ emitted[i].cause = "full" => Len(emitted[i].data) >= maxBufferSize

C7_Witness ==
    /\ emitted # <<>>
    /\ emitted[1].cause = "full"
    /\ Len(emitted[1].data) > maxBufferSize

\* C8: a silence frame that leaves the counter below minSilenceFrames changes
\* neither the buffer nor the emitted segments; the next speech frame resets
\* the counter to 0 and is appended to the same buffer, which is emitted
\* whole if that frame fills it.
C8_TransientSilenceKeepsSegmentOpen ==
    [][FrameProcessed =>
         /\ (/\ frames'[Len(frames')].speech = "silence"
             /\ audioBuffer # <<>>
             /\ silenceFrames + 1 < minSilenceFrames)
            => (audioBuffer' = audioBuffer /\ emitted' = emitted
                /\ silenceFrames' = silenceFrames + 1)
         /\ (frames'[Len(frames')].speech = "speech")
            => /\ silenceFrames' = 0
               /\ LET grown == Append(audioBuffer, SamplesOf(frames'[Len(frames')].tag))
                  IN \/ audioBuffer' = grown /\ emitted' = emitted
                     \/ /\ bufferSize + chunkSize >= maxBufferSize
                        /\ audioBuffer' = <<>>
                        /\ emitted' = Append(emitted, [cause |-> "full", at |-> Len(frames'),
                                                       data |-> FlattenSeq(grown)])]_vars

C8_Witness ==
    \E i \in 1..Len(emitted) : \E a, b, c \in 1..Len(frames) :
        /\ a < b /\ b < c
        /\ frames[b].speech = "silence"
        /\ frames[a].tag \in Range(emitted[i].data)
        /\ frames[c].tag \in Range(emitted[i].data)
        /\ frames[b].tag = frames[a].tag + 1
        /\ frames[c].tag = frames[b].tag + 1

\* C9: once stopRecording has been issued and until the caller issues a new
\* start, no frame is appended to the buffer and no segment is emitted.
C9_StopIsOneShot ==
    [][(stopIssued /\ stopIssued') => (appended' = appended /\ emitted' = emitted)]_vars

\* C10: no exception leaves the frame callback; a listener that throws is
\* reported through the error listener and recording is stopped.
C10_CallbackNeverThrows ==
    lastOp = "onaudioprocess" => ~threw

\* ---- vocabulary of the lifecycle properties ----
AllReleased ==
    ~stream /\ ~processor /\ ~analyser /\ ~microphone /\ audioContext = "null"
DeviceHeld ==
    stream /\ processor /\ analyser /\ microphone /\ audioContext # "null"
InitialVadState ==
    /\ energyHistory = <<>> /\ backgroundNoise = InitialBackgroundNoise
    /\ silenceFrames = 0 /\ speechFrames = 0

\* C11: an initialize that ends in an error (permission denied, no media API,
\* audio context or node creation failure) leaves held exactly what was held
\* before it: nothing acquired during the failed attempt stays held.
C11_FailedInitializeHoldsNothing ==
    [][(lastOp' = "initialize" /\ lastTrace' = <<"error">>) => resources' = resources]_vars

\* C12: a cleanup leaves every resource released, recording off and the buffer
\* empty, from whatever state it is called; a cleanup that directly follows a
\* cleanup changes nothing, releases nothing and emits nothing.
C12_CleanupIdempotent ==
    [][(lastOp' = "cleanup" /\ nOps' = nOps + 1)
        => /\ AllReleased' /\ ~isRecording' /\ audioBuffer' = <<>> /\ bufferSize' = 0
           /\ lastOp = "cleanup"
                => /\ resources' = resources /\ isRecording' = isRecording
                   /\ buffering' = buffering /\ vadState' = vadState
                   /\ emitted' = emitted /\ lastTrace' = <<>>]_vars

\* a cleanup that found nothing to release although frames were recorded
C12_Witness ==
    /\ lastOp = "cleanup" /\ lastTrace = <<>>
    /\ frames # <<>> /\ emitted # <<>>
    /\ AllReleased

\* C13 (as stated): when stopRecording has run, the media stream and the audio
\* context are released.
C13_StopReleasesDevice ==
    lastOp = "stopRecording" => (~stream /\ audioContext = "null")

\* C13 (amended): stopRecording turns recording off and empties the buffer but
\* releases nothing: the stream, the audio context and the nodes are held
\* exactly as before; only cleanup gives them back.
C13_StopKeepsDevice ==
    [][(lastOp' = "stopRecording")
        => /\ resources' = resources
           /\ ~isRecording' /\ audioBuffer' = <<>>]_vars

C13_Witness ==
    /\ lastOp = "stopRecording" /\ DeviceHeld
    /\ ~isRecording /\ emitted # <<>>

\* C14: a recording that starts after a stop begins with the initial voice
\* activity state: empty energy history, initial noise estimate, zero counters.
C14_FreshVadStatePerSession ==
    [][(stopIssued /\ lastOp' = "startRecording" /\ isRecording') => InitialVadState']_vars

\* C16: recording is on only while the device is held: startRecording on a
\* capture that was never successfully initialized, or was cleaned up, leaves
\* isRecording false.
C16_RecordingNeedsDevice ==
    isRecording => DeviceHeld

\* ---- vocabulary of the voice activity properties ----
ConstantStream == fed # <<>> /\ Changes(fed) = 0
Vad == lastVad[1]
MostRecent(es, k) == SubSeq(es, Max(1, Len(es) - k + 1), Len(es))

\* C17 (as stated): after a constant-energy stream of more than 10 frames the
\* background noise estimate equals the constant.
C17_EstimateAfterTenFrames ==
    (ConstantStream /\ Len(fed) > 10) => backgroundNoise = fed[1]

\* C17 (amended): after a constant-energy stream of 12 frames or more the
\* background noise estimate equals the constant; up to and including 11
\* frames it is still the initial value.
C17_EstimateAfterTwelveFrames ==
    ConstantStream
        => /\ Len(fed) >= 12 => backgroundNoise = fed[1]
           /\ Len(fed) <= 11 => backgroundNoise = InitialBackgroundNoise

C17_Witness ==
    /\ ConstantStream /\ Len(fed) = 12
    /\ backgroundNoise = fed[1] /\ backgroundNoise # InitialBackgroundNoise

\* C18: a frame whose energy exceeds the background noise estimate used for
\* that frame by more than 0.3 is classified as speech, whatever the rolling
\* average and the fallback threshold are.
C18_OnsetSensitivity ==
    lastVad # <<>> => (Vad.energy > backgroundNoise + 3 => Vad.isSpeech)

\* an onset: the rolling average is still below the threshold
C18_Witness ==
    /\ lastVad # <<>>
    /\ Vad.energy > backgroundNoise + 3
    /\ Vad.recentSum <= Vad.recentLen * Vad.threshold
    /\ Vad.isSpeech
    /\ Len(fed) > 12 /\ fed[Len(fed) - 1] < Vad.energy

\* C19: the confidence of every result is in [0, 1], and it is 0 whenever the
\* average of the recent energies is at or below the threshold.
C19_ConfidenceClamped ==
    lastVad # <<>>
        => /\ Vad.confidence.den > 0
           /\ 0 <= Vad.confidence.num /\ Vad.confidence.num <= Vad.confidence.den
           /\ Vad.recentSum <= Vad.recentLen * Vad.threshold => Vad.confidence.num = 0

\* a result clamped at 0 from below, after a louder stretch of the stream
C19_Witness ==
    /\ lastVad # <<>>
    /\ Vad.recentSum < Vad.recentLen * Vad.threshold
    /\ Vad.confidence.num = 0
    /\ Len(fed) > 5 /\ fed[1] > Vad.threshold

\* C20: the energy history holds at most energyHistorySize values, the most
\* recent ones in arrival order.
C20_HistoryIsMostRecent ==
    /\ Len(energyHistory) <= energyHistorySize
    /\ energyHistory = MostRecent(fed, energyHistorySize)

C20_Witness ==
    /\ Len(fed) = energyHistorySize + 2
    /\ fed[1] # fed[3]
    /\ energyHistory[1] = fed[3]
    /\ Len(energyHistory) = energyHistorySize

\* C15: after a permission denial was reported and until the caller makes a
\* new request, no recognizer start is attempted.
C15_NoAutomaticRetry ==
    [][(denialAt = nOps /\ recStarts' > recStarts) => nOps' > nOps]_vars

\* ---- vocabulary of the per-frame properties ----
FrameDelivered == lastOp' = "onaudioprocess" /\ nFrames' = nFrames + 1
NewestFrame == frames'[Len(frames')]
Count(trace, ev) == Cardinality(Positions(trace, ev))

\* C21: minSpeechFrames gates nothing: every speech frame is buffered whatever
\* the count of consecutive speech frames is, and a buffer that holds fewer
\* than minSpeechFrames frames is emitted by the silence threshold and by stop
\* like any other.
C21_MinSpeechFramesGatesNothing ==
    [][/\ (FrameProcessed /\ NewestFrame.speech = "speech")
            => appended' = appended \o SamplesOf(NewestFrame.tag)
       /\ (FrameProcessed /\ NewestFrame.speech = "silence"
            /\ audioBuffer # <<>> /\ silenceFrames + 1 >= minSilenceFrames)
            => Len(emitted') = Len(emitted) + 1
       /\ (lastOp' \in StopOps /\ nOps' = nOps + 1 /\ audioBuffer # <<>>)
            => Len(emitted') = Len(emitted) + 1]_vars

\* a segment made of a single speech frame, emitted by the silence threshold
C21_Witness ==
    \E i \in 1..Len(emitted) :
        /\ emitted[i].cause = "silence"
        /\ Len(emitted[i].data) = chunkSize
        /\ Len(emitted[i].data) < minSpeechFrames * chunkSize

\* C22: a frame delivered while recording produces one level event, then one
\* VAD event, then the segment it causes, if any; a frame delivered while not
\* recording produces no event and changes neither the buffer nor the VAD state.
C22_LevelThenVadThenSegment ==
    [][FrameDelivered
        => IF isRecording
           THEN /\ Len(lastTrace') >= 2
                /\ lastTrace'[1] = "level" /\ lastTrace'[2] = "vad"
                /\ Count(lastTrace', "level") = 1 /\ Count(lastTrace', "vad") = 1
                /\ Positions(lastTrace', "segment") \subseteq {3}
                /\ (Len(emitted') > Len(emitted)) = (Positions(lastTrace', "segment") = {3})
                /\ Len(frames') = Len(frames) + 1
           ELSE /\ lastTrace' = <<>>
                /\ UNCHANGED <<buffering, vadState, frames, appended, emitted>>]_vars

C22_Witness ==
    /\ lastOp = "onaudioprocess"
    /\ lastTrace = <<"level", "vad", "segment">>
    /\ emitted # <<>> /\ emitted[Len(emitted)].at = Len(frames)

\* C24: the sample count is the sum of the lengths of the buffered frames and
\* is 0 exactly when the buffer is empty; the buffer is emptied, and the count
\* reset, only by a flush, which emits a segment.
C24_CountMatchesBuffer ==
    /\ [](/\ bufferSize = Len(FlattenSeq(audioBuffer))
          /\ (bufferSize = 0) = (audioBuffer = <<>>))
    /\ [][(bufferSize' < bufferSize \/ Len(audioBuffer') < Len(audioBuffer))
            => /\ audioBuffer' = <<>> /\ bufferSize' = 0
               /\ Len(emitted') = Len(emitted) + 1]_vars

\* the count grown again after a flush reset it
C24_Witness ==
    /\ emitted # <<>>
    /\ Len(audioBuffer) = 2 /\ bufferSize = 2 * chunkSize

\* ---- vocabulary of the retry properties ----
Retryable == {"recoverable", "other"}
RetryDone == retryPc = "done"

\* C30: withRetry invokes the operation at most maxRetries times, never again
\* after a success or an error that is not recoverable, which is the error
\* thrown; after maxRetries retryable failures it throws the last error; it
\* waits delay * 2^i between attempt i and the next, and never after the last.
C30_WithRetryContract ==
    /\ retryCalls <= retryMax
    /\ retryCalls \in {Len(retryLog), Len(retryLog) + 1}
    /\ (retryCalls = Len(retryLog) + 1) = (retryPc = "awaiting")
    /\ \A k \in 1..(Len(retryLog) - 1) : retryLog[k] \in Retryable
    /\ (retryLog # <<>> /\ retryLog[Len(retryLog)] \notin Retryable) => RetryDone
    /\ RetryDone
        => /\ retryCalls = Len(retryLog)
           /\ retryResult.kind = "returned" <=> (retryLog # <<>> /\ retryLog[Len(retryLog)] = "success")
           /\ retryResult.kind = "generic" <=> retryMax = 0
           /\ retryResult.kind = "threw"
                => /\ retryResult.error = Len(retryLog)
                   /\ \/ retryLog[Len(retryLog)] = "fatal"
                      \/ retryLog[Len(retryLog)] \in Retryable /\ Len(retryLog) = retryMax
           /\ Len(retryWaits) = Max(retryCalls - 1, 0)
    /\ Len(retryWaits) <= Max(retryCalls, 1) - 1 + (IF retryPc = "waiting" THEN 1 ELSE 0)
    /\ \A k \in 1..Len(retryWaits) : retryWaits[k] = retryDelay * Pow2(k - 1)

\* every attempt allowed was made and failed
C30_Witness ==
    /\ RetryDone /\ retryMax = 3 /\ retryCalls = 3
    /\ retryResult = [kind |-> "threw", error |-> 3]
    /\ retryLog[3] \in Retryable
    /\ Len(retryWaits) = 2 /\ retryWaits[2] = 2 * retryDelay

\* C25: no frame is handed over twice: two emitted segments never share a
\* frame, also when the segment listener calls stopRecording or cleanup from
\* inside the callback.
C25_SegmentEmittedOnce ==
    \A i, j \in 1..Len(emitted) :
        i < j => Range(emitted[i].data) \cap Range(emitted[j].data) = {}

\* ---- vocabulary of the manager properties ----
NoCallInFlight == mgrPc = "idle" /\ stopPc = "idle"
ChunkOrder == [i \in 1..Len(chunks) |-> chunks[i].seg]

\* C23: the segment flushed by the stopRecording of stopTranscription is
\* handed to the transcription backend, not discarded by the manager.
C23_FinalSegmentReachesBackend ==
    \A i \in 1..Len(emitted) :
        emitted[i].cause = "stop" => (i \in Range(sentSegs) /\ i \notin discarded)

\* C26: in Electron mode the chunks reach the chunk listener in the order in
\* which their segments were emitted.
C26_ChunksInSegmentOrder ==
    mode = "electron"
        => \A i, j \in 1..Len(chunks) : i < j => ChunkOrder[i] < ChunkOrder[j]

\* C27: no chunk is delivered to the chunk listener after stopTranscription
\* has completed.
C27_NoChunkAfterStop ==
    \A i \in 1..Len(chunks) : ~chunks[i].afterStop

\* C28: startTranscription returns a session id, and sets isTranscribing,
\* only when the capture is recording.
C28_IdOnlyWhenRecording ==
    [][/\ (lastReturn # "id" /\ lastReturn' = "id") => isRecording'
       /\ (~isTranscribing /\ isTranscribing') => isRecording']_vars

\* C29: while no startTranscription or stopTranscription is in flight, the
\* session id is set exactly when isTranscribing is true, and without a
\* session no speech recognizer is running.
C29_SessionIffTranscribing ==
    NoCallInFlight
        => /\ sessionId = isTranscribing
           /\ ~isTranscribing => ~recRunning
====
